---- MODULE Spec2Model ----
(***************************************************************************)
(* Model of actions.py: the knowledge-base actions of a conversational     *)
(* assistant (list entities, query an attribute, compare entities, resolve *)
(* a mention) together with the helpers they share (resolve_mention,       *)
(* get_entity_type, get_attribute, get_entity_name, to_str).               *)
(*                                                                         *)
(* Python values are modelled as follows.                                  *)
(*   - An optional value is a sequence of length 0 or 1: None is <<>> and  *)
(*     a present value v is <<v>>.                                         *)
(*   - A string that the code inspects character by character (attribute   *)
(*     paths, lookup results handed to int()) is a sequence of one-        *)
(*     character strings; any other string is a TLA+ string.               *)
(*   - The outcome of a call that may raise is a record [exc, val]: exc is *)
(*     "" when the call returned val, and the exception's name otherwise.  *)
(***************************************************************************)
EXTENDS Integers, Sequences, FiniteSets, TLC

VARIABLES
    slots,      \* the tracker's slots: slot name -> optional value
    turn,       \* the action that ran and has not ended: answers, outcome
    displayed,  \* the entity lines of the last listing that set `entities`
    fmtIn,      \* to_str under test: its arguments [entity, keys]
    fmtOut      \* to_str under test: its outcome, <<>> before the call

vars == <<slots, turn, displayed, fmtIn, fmtOut>>

----------------------------------------------------------------------------
(* Optional values and call outcomes *)

None == <<>>
Some(v) == <<v>>
Val(o) == o[1]

Return(v) == [exc |-> "", val |-> v]
Raise(e) == [exc |-> e, val |-> None]

----------------------------------------------------------------------------
(* Python string primitives on character sequences *)

RECURSIVE Join(_)
\* "".join(cs): the string made of the characters cs
Join(cs) == IF cs = <<>> THEN "" ELSE Head(cs) \o Join(Tail(cs))

\* sub in s
Contains(sub, s) ==
    \E i \in 1..(Len(s) - Len(sub) + 1) : SubSeq(s, i, i + Len(sub) - 1) = sub

RECURSIVE SplitFrom(_, _, _)
SplitFrom(s, sep, acc) ==
    IF s = <<>> THEN <<acc>>
    ELSE IF Head(s) = sep THEN <<acc>> \o SplitFrom(Tail(s), sep, <<>>)
    ELSE SplitFrom(Tail(s), sep, Append(acc, Head(s)))

\* s.split(sep) for a one-character separator
Split(s, sep) == SplitFrom(s, sep, <<>>)

RECURSIVE JoinWith(_, _)
\* sep.join(parts) on TLA+ strings
JoinWith(sep, parts) ==
    IF parts = <<>> THEN ""
    ELSE IF Len(parts) = 1 THEN parts[1]
    ELSE parts[1] \o sep \o JoinWith(sep, Tail(parts))

DigitValue ==
    [c \in {"0", "1", "2", "3", "4", "5", "6", "7", "8", "9"} |->
        CASE c = "0" -> 0 [] c = "1" -> 1 [] c = "2" -> 2 [] c = "3" -> 3
          [] c = "4" -> 4 [] c = "5" -> 5 [] c = "6" -> 6 [] c = "7" -> 7
          [] c = "8" -> 8 [] c = "9" -> 9]

RECURSIVE DigitsValue(_, _)
DigitsValue(ds, acc) ==
    IF ds = <<>> THEN acc
    ELSE DigitsValue(Tail(ds), 10 * acc + DigitValue[Head(ds)])

\* int(x) of an optional string: TypeError on None, ValueError on a string
\* that is not an optionally signed run of decimal digits
int(x) ==
    IF x = None THEN Raise("TypeError")
    ELSE LET s == Val(x)
             signed == s # <<>> /\ Head(s) \in {"-", "+"}
             ds == IF signed THEN Tail(s) ELSE s
         IN  IF ds = <<>> \/ \E i \in 1..Len(ds) : ds[i] \notin DOMAIN DigitValue
             THEN Raise("ValueError")
             ELSE Return(IF signed /\ Head(s) = "-"
                         THEN 0 - DigitsValue(ds, 0)
                         ELSE DigitsValue(ds, 0))

\* seq[idx] of a Python list: a negative index counts from the end
PyIndex(seq, idx) ==
    IF idx >= 0 /\ idx < Len(seq) THEN Return(seq[idx + 1])
    ELSE IF idx < 0 /\ idx + Len(seq) >= 0 THEN Return(seq[idx + Len(seq) + 1])
    ELSE Raise("IndexError")

----------------------------------------------------------------------------
(* Entity records: nested mappings with typed leaves *)

Map(f) == [kind |-> "dict", f |-> f]
Str(s) == [kind |-> "str", s |-> s]
Num(n) == [kind |-> "int", n |-> n]
Datetime(Y, M, D, h, m, s) ==
    [kind |-> "datetime", Y |-> Y, M |-> M, D |-> D, h |-> h, m |-> m, s |-> s]

Pad2(n) == IF n < 10 THEN "0" \o ToString(n) ELSE ToString(n)

\* str(v): a string is itself, an int its decimal form, a datetime its ISO
\* form with a space; the repr of a nested mapping is abbreviated
str(v) ==
    CASE v.kind = "str" -> v.s
      [] v.kind = "int" -> ToString(v.n)
      [] v.kind = "datetime" ->
            ToString(v.Y) \o "-" \o Pad2(v.M) \o "-" \o Pad2(v.D)
                \o " " \o Pad2(v.h) \o ":" \o Pad2(v.m) \o ":" \o Pad2(v.s)
      [] OTHER -> "{...}"

\* v.strftime("%d.%m.%Y (%H:%M:%S)")
strftime(v) ==
    Pad2(v.D) \o "." \o Pad2(v.M) \o "." \o ToString(v.Y)
        \o " (" \o Pad2(v.h) \o ":" \o Pad2(v.m) \o ":" \o Pad2(v.s) \o ")"

RECURSIVE Traverse(_, _)
\* for k in key.split("."): _e = _e[k]
Traverse(e, segs) ==
    IF segs = <<>> THEN Return(e)
    ELSE IF e.kind # "dict" THEN Raise("TypeError")
    ELSE IF Join(Head(segs)) \notin DOMAIN e.f THEN Raise("KeyError")
    ELSE Traverse(e.f[Join(Head(segs))], Tail(segs))

balance == <<"b", "a", "l", "a", "n", "c", "e">>
amount == <<"a", "m", "o", "u", "n", "t">>
date == <<"d", "a", "t", "e">>

\* FormatKey with the rendering chosen from the last segment of the key
FormatKey_final_segment(entity, key) ==
    LET segs == Split(key, ".")
        last == segs[Len(segs)]
        t == Traverse(entity, segs)
    IN  IF t.exc # "" THEN t
        ELSE IF Contains(balance, last) \/ Contains(amount, last)
        THEN Return(str(t.val) \o " €")
        ELSE IF Contains(date, last)
        THEN IF t.val.kind = "datetime"
             THEN Return(strftime(t.val)) ELSE Raise("AttributeError")
        ELSE Return(str(t.val))

\* the body of to_str's loop for one key
FormatKey(entity, key) ==
    LET t == Traverse(entity, Split(key, "."))
    IN  IF t.exc # "" THEN t
        ELSE IF Contains(balance, key) \/ Contains(amount, key)
        THEN Return(str(t.val) \o " €")
        ELSE IF Contains(date, key)
        THEN IF t.val.kind = "datetime"
             THEN Return(strftime(t.val)) ELSE Raise("AttributeError")
        ELSE Return(str(t.val))

RECURSIVE FormatKeys(_, _, _)
FormatKeys(entity, keys, v_list) ==
    IF keys = <<>> THEN Return(JoinWith(", ", v_list))
    ELSE LET r == FormatKey(entity, Head(keys))
         IN  IF r.exc # "" THEN r
             ELSE FormatKeys(entity, Tail(keys), Append(v_list, r.val))

\* entity_keys: Union[Text, List[Text]]
TextKey(s) == [kind |-> "str", v |-> s]
ListKey(l) == [kind |-> "list", v |-> l]

to_str(entity, entity_keys) ==
    FormatKeys(entity,
               IF entity_keys.kind = "str" THEN <<entity_keys.v>> ELSE entity_keys.v,
               <<>>)

----------------------------------------------------------------------------
(* The schema (constants.schema) and the knowledge graph's records *)

name_ == <<"n", "a", "m", "e">>
identifier == <<"i", "d", "e", "n", "t", "i", "f", "i", "e", "r">>
execution_date ==
    <<"e", "x", "e", "c", "u", "t", "i", "o", "n", "-", "d", "a", "t", "e">>

\* entity type -> attributes (slot names), key, representation
schema ==
    [bank |->
        [attributes |-> <<>>,
         key |-> TextKey(name_),
         representation |-> ListKey(<<name_>>)],
     transaction |->
        [attributes |-> <<"category">>,
         key |-> TextKey(identifier),
         representation |-> ListKey(<<execution_date, amount>>)]]

EntityTypes == DOMAIN schema

Bank(n) == Map([name |-> Str(n)])

Transaction(id, cat, day, amt, acct) ==
    Map([identifier |-> Str(id),
         category |-> Str(cat),
         amount |-> Num(amt)]
        @@ ("execution-date" :> Datetime(2023, 5, day, 10, 15, 30))
        @@ ("account-of-creator" :> Map("account-number" :> Str(acct))))

\* the records the graph holds, by entity type
Records ==
    [bank |-> {Bank("N26")},
     transaction |-> {Transaction("t1", "food", 1, 50, "A1"),
                      Transaction("t2", "rent", 2, 700, "A2"),
                      Transaction("t3", "food", 3, 9, "A1")}]

\* bound: the longest sequence get_entities returns
MaxEntities == 2

\* sequences of distinct elements of S, of length at most n
RECURSIVE Arrangements(_, _)
Arrangements(S, n) ==
    IF n = 0 THEN {<<>>}
    ELSE LET shorter == Arrangements(S, n - 1)
         IN  shorter \cup {Append(q, x) : q \in shorter, x \in S}

DistinctSeqs(S, n) ==
    {q \in Arrangements(S, n) : \A i, j \in 1..Len(q) : i # j => q[i] # q[j]}

\* whether the record matches every {"key": attr, "value": attr_val} filter
Matches(e, attributes) ==
    \A i \in 1..Len(attributes) :
        /\ attributes[i].key \in DOMAIN e.f
        /\ e.f[attributes[i].key] = Str(attributes[i].value)

\* what graph_database.get_entities(entity_type, attributes) may return
GetEntitiesResults(entity_type, attributes) ==
    DistinctSeqs({e \in Records[entity_type] : Matches(e, attributes)}, MaxEntities)

\* what graph_database.lookup("mention-lookup", mention) may return
MentionLookupResults ==
    {None, Some(<<"x">>), Some(<<"-", "1">>),
     Some(<<"0">>), Some(<<"1">>), Some(<<"2">>)}

\* what graph_database.lookup("entity-type-lookup", entity_type) may return:
\* the canonical type of a term that is in the table, None otherwise
EntityTypeLookupResults(term) ==
    IF term # None /\ Val(term) \in EntityTypes THEN {None, term} ELSE {None}

\* what graph_database.lookup("attribute-lookup", attribute) may return
AttributeLookupResults(term) ==
    IF term # None THEN {None, Some("headquarters")} ELSE {None}

\* what graph_database.get_attribute_of(...) may return for one entity
AttributeValues == <<None, Some(<<>>), Some(<<"v">>), Some(<<"v", "w">>)>>

KeyIndex(e) ==
    CASE e \in {"N26", "t1"} -> 0
      [] e = "t2" -> 1
      [] e = "t3" -> 2
      [] OTHER -> 3

\* the graph's attribute contents a turn may meet: table 0 answers every
\* entity with exactly one value, tables 1..4 answer consecutive entities
\* with consecutive elements of AttributeValues
AttributeTables == 0..4

get_attribute_of(table, e) ==
    IF table = 0 THEN Some(<<"v">>)
    ELSE AttributeValues[((KeyIndex(e) + table) % 4) + 1]

----------------------------------------------------------------------------
(* The tracker *)

SlotNames ==
    {"mention", "entities", "entity_type", "attribute", "account",
     "bank", "transaction", "category"}

\* tracker.get_slot(key): None for a key that is no slot, None included
get_slot(tracker, key) ==
    IF key # None /\ Val(key) \in DOMAIN tracker THEN tracker[Val(key)] ELSE None

SlotSet(key, value) == [event |-> "slot", name |-> key, value |-> value]

RECURSIVE Apply(_, _)
\* the tracker after the events an action returned
Apply(tracker, events) ==
    IF events = <<>> THEN tracker
    ELSE LET ev == Head(events)
             next == IF ev.name # None /\ Val(ev.name) \in DOMAIN tracker
                     THEN [tracker EXCEPT ![Val(ev.name)] = ev.value]
                     ELSE tracker
         IN  Apply(next, Tail(events))

utter_template(t) == [via |-> "utter_template", text |-> t]
utter_message(t) == [via |-> "utter_message", text |-> t]

\* the outcome of an action's run: messages dispatched, events returned,
\* and the exception that ended it ("" when it returned)
Outcome(messages, events, exc) ==
    [messages |-> messages, events |-> events, exc |-> exc]

----------------------------------------------------------------------------
(* The helpers.  g is what the graph database answers during the turn:     *)
(* g.typ, g.mention and g.attr the three lookups, g.got get_entities and   *)
(* g.table the attribute contents get_attribute_of reads.                  *)

\* resolve_mention with the index taken as counted from one
resolve_mention_one_based(tracker, g) ==
    LET mention == get_slot(tracker, Some("mention"))
        entities == get_slot(tracker, Some("entities"))
    IN  IF mention # None /\ entities # None
        THEN LET idx == int(g.mention)
             IN  IF idx.exc # "" THEN idx
                 ELSE IF idx.val < Len(Val(entities))
                 THEN LET x == PyIndex(Val(entities), idx.val - 1)
                      IN  IF x.exc # "" THEN x ELSE Return(Some(x.val))
                 ELSE Return(None)
        ELSE Return(None)

\* int() returns an int or raises, so `type(idx) is int` holds whenever
\* the comparison with len(entities) is reached
resolve_mention(tracker, g) ==
    LET mention == get_slot(tracker, Some("mention"))
        entities == get_slot(tracker, Some("entities"))
    IN  IF mention # None /\ entities # None
        THEN LET idx == int(g.mention)
             IN  IF idx.exc # "" THEN idx
                 ELSE IF idx.val < Len(Val(entities))
                 THEN LET x == PyIndex(Val(entities), idx.val)
                      IN  IF x.exc # "" THEN x ELSE Return(Some(x.val))
                 ELSE Return(None)
        ELSE Return(None)

\* whether resolve_mention asks the graph database for the mention's index
resolve_mention_calls(tracker) ==
    IF get_slot(tracker, Some("mention")) # None
           /\ get_slot(tracker, Some("entities")) # None
    THEN {"mention-lookup"} ELSE {}

\* the lookup's answer for the slot's value; the answers an action may get
\* for the value are TypeAnswers and AttributeAnswers below
get_entity_type(tracker, g) == g.typ

get_attribute(tracker, g) == g.attr

get_entity_name(tracker, entity_type, g) ==
    LET name == get_slot(tracker, entity_type)
    IN  IF name = None THEN resolve_mention(tracker, g) ELSE Return(name)

get_entity_name_calls(tracker, entity_type) ==
    IF get_slot(tracker, entity_type) = None
    THEN resolve_mention_calls(tracker) ELSE {}

----------------------------------------------------------------------------
(* ActionQueryEntities *)

\* the attributes the NER found for the entity type
FilterAttributes(tracker, entity_type) ==
    LET set(a) == get_slot(tracker, Some(a)) # None
        found == IF entity_type \in DOMAIN schema
                 THEN SelectSeq(schema[entity_type].attributes, set)
                 ELSE <<>>
    IN  [i \in 1..Len(found) |->
            [key |-> found[i], value |-> Val(get_slot(tracker, Some(found[i])))]]

RECURSIVE FilterLoop(_, _, _)
\* for entity in entities: keep the entity of the account number
FilterLoop(entities, account_number, filtered_entities) ==
    IF entities = <<>> THEN Return(filtered_entities)
    ELSE LET entity == Head(entities)
         IN  IF "account-of-creator" \notin DOMAIN entity.f
                    \/ "account-number" \notin DOMAIN entity.f["account-of-creator"].f
             THEN Raise("KeyError")
             ELSE FilterLoop(
                      Tail(entities), account_number,
                      IF entity.f["account-of-creator"].f["account-number"]
                             = Str(account_number)
                      THEN Append(filtered_entities, entity)
                      ELSE filtered_entities)

\* filter_transaction_entities that keeps every transaction
filter_transaction_entities_keeps_all(entities, account_number) ==
    Return(entities)

filter_transaction_entities(entities, account_number) ==
    IF account_number # None
    THEN FilterLoop(entities, Val(account_number), <<>>)
    ELSE Return(entities)

RECURSIVE UtterEntities(_, _, _, _)
\* the loop over enumerate(entities): one message per entity, or the
\* exception to_str raised, with the messages dispatched before it
UtterEntities(entities, representation, i, messages) ==
    IF i > Len(entities) THEN Outcome(messages, <<>>, "")
    ELSE LET r == to_str(entities[i], representation)
         IN  IF r.exc # "" THEN Outcome(messages, <<>>, r.exc)
             ELSE UtterEntities(entities, representation, i + 1,
                      Append(messages,
                             utter_message(ToString(i) \o ": " \o r.val)))

RECURSIVE MapToStr(_, _, _)
\* list(map(lambda x: to_str(x, entity_key), entities))
MapToStr(entities, entity_key, done) ==
    IF entities = <<>> THEN Return(done)
    ELSE LET r == to_str(Head(entities), entity_key)
         IN  IF r.exc # "" THEN r
             ELSE MapToStr(Tail(entities), entity_key, Append(done, r.val))

\* QueryEntitiesSlots that sets the type's slot to the first entity found
QueryEntitiesSlots_first_found(entity_type, entities, keys) ==
    <<SlotSet(Some("entity_type"), Some(entity_type)),
      SlotSet(Some("entities"), Some(keys)),
      SlotSet(Some(entity_type), Some(keys[1]))>>

QueryEntitiesSlots(entity_type, entities, keys) ==
    <<SlotSet(Some("entity_type"), Some(entity_type)),
      SlotSet(Some("entities"), Some(keys))>>
        \o (IF Len(entities) = 1
            THEN <<SlotSet(Some(entity_type), Some(keys[1]))>>
            ELSE <<>>)

\* NoEntities that forgets the entities of the listing before
NoEntities_resets(entity_type) ==
    Outcome(<<utter_template(
                  "I could not find any entities for '" \o entity_type \o "'.")>>,
            <<SlotSet(Some("entities"), None)>>, "")

\* if not entities: one message, no events
NoEntities(entity_type) ==
    Outcome(<<utter_template(
                  "I could not find any entities for '" \o entity_type \o "'.")>>,
            <<>>, "")

\* the entities get_entities answered, less the transactions of other accounts
FoundEntities(tracker, entity_type, got) ==
    IF entity_type = "transaction"
    THEN filter_transaction_entities(got, get_slot(tracker, Some("account")))
    ELSE Return(got)

QueryEntitiesRun(tracker, g) ==
    LET entity_type == get_entity_type(tracker, g)
    IN  IF entity_type = None
        THEN Outcome(<<utter_template("utter_rephrase")>>, <<>>, "")
        ELSE
        LET et == Val(entity_type)
            entities == FoundEntities(tracker, et, g.got)
        IN  IF entities.exc # "" THEN Outcome(<<>>, <<>>, entities.exc)
            ELSE IF entities.val = <<>> THEN NoEntities(et)
            ELSE
            LET said == UtterEntities(
                            entities.val, schema[et].representation, 1,
                            <<utter_message(
                                  "Found the following '" \o et \o "' entities:")>>)
                keys == MapToStr(entities.val, schema[et].key, <<>>)
            IN  IF said.exc # "" THEN said
                ELSE IF keys.exc # "" THEN Outcome(said.messages, <<>>, keys.exc)
                ELSE Outcome(said.messages,
                             QueryEntitiesSlots(et, entities.val, keys.val), "")

QueryEntitiesCalls(tracker, g) ==
    {"entity-type-lookup"}
        \cup (IF get_entity_type(tracker, g) # None THEN {"get_entities"} ELSE {})

----------------------------------------------------------------------------
(* ActionQueryAttribute *)

ValueMessage(name, value, attribute) ==
    utter_message(name \o " has the value '" \o value
                      \o "' for attribute '" \o attribute \o "'.")

NoValueMessage(name, attribute) ==
    utter_message("Did not found a valid value for attribute " \o attribute
                      \o " for entity '" \o name \o "'.")

\* UtterValue that answers with the first of several values
UtterValue_first_value(name, value, attribute) ==
    IF value # None /\ Len(Val(value)) >= 1
    THEN ValueMessage(name, Val(value)[1], attribute)
    ELSE NoValueMessage(name, attribute)

\* utter response: the value if there is exactly one
UtterValue(name, value, attribute) ==
    IF value # None /\ Len(Val(value)) = 1
    THEN ValueMessage(name, Val(value)[1], attribute)
    ELSE NoValueMessage(name, attribute)

QueryAttributeRun(tracker, g) ==
    LET entity_type == get_entity_type(tracker, g)
        first == IF entity_type = None
                 THEN <<utter_template("utter_rephrase")>> ELSE <<>>
        name == get_entity_name(tracker, entity_type, g)
        attribute == get_attribute(tracker, g)
    IN  IF name.exc # "" THEN Outcome(first, <<>>, name.exc)
        ELSE IF name.val = None \/ attribute = None
        THEN Outcome(Append(first, utter_template("utter_rephrase")),
                     <<SlotSet(entity_type, None)>>, "")
        ELSE IF entity_type = None
        THEN Outcome(first, <<>>, "KeyError")   \* schema[None]
        ELSE
        Outcome(Append(first,
                       UtterValue(Val(name.val),
                                  get_attribute_of(g.table, Val(name.val)),
                                  Val(attribute))),
                <<SlotSet(entity_type, None)>>, "")

\* what resolve_mention returned to the action, <<>> if it was not called
QueryAttributeMention(tracker, g) ==
    IF get_slot(tracker, get_entity_type(tracker, g)) = None
    THEN <<resolve_mention(tracker, g)>> ELSE <<>>

QueryAttributeCalls(tracker, g) ==
    LET entity_type == get_entity_type(tracker, g)
        name == get_entity_name(tracker, entity_type, g)
    IN  {"entity-type-lookup"}
            \cup get_entity_name_calls(tracker, entity_type)
            \cup (IF name.exc = "" THEN {"attribute-lookup"} ELSE {})
            \cup (IF name.exc = "" /\ name.val # None
                        /\ get_attribute(tracker, g) # None /\ entity_type # None
                  THEN {"get_attribute_of"} ELSE {})

----------------------------------------------------------------------------
(* ActionCompareEntities *)

RECURSIVE CompareLoop_reports_missing(_, _, _, _)
\* CompareLoop that reports the entities without exactly one value
CompareLoop_reports_missing(entities, attribute, table, messages) ==
    IF entities = <<>> THEN messages
    ELSE LET e == Head(entities)
             value == get_attribute_of(table, e)
         IN  CompareLoop_reports_missing(Tail(entities), attribute, table,
                 IF value # None /\ Len(Val(value)) = 1
                 THEN Append(messages, ValueMessage(e, Val(value)[1], attribute))
                 ELSE Append(messages, NoValueMessage(e, attribute)))

RECURSIVE CompareLoop(_, _, _, _)
\* for e in entities: one message for every entity with exactly one value
CompareLoop(entities, attribute, table, messages) ==
    IF entities = <<>> THEN messages
    ELSE LET e == Head(entities)
             value == get_attribute_of(table, e)
         IN  CompareLoop(Tail(entities), attribute, table,
                 IF value # None /\ Len(Val(value)) = 1
                 THEN Append(messages, ValueMessage(e, Val(value)[1], attribute))
                 ELSE messages)

CompareEntitiesRun(tracker, g) ==
    LET entities == get_slot(tracker, Some("entities"))
        entity_type == get_entity_type(tracker, g)
    IN  IF entities = None \/ entity_type = None
        THEN Outcome(<<utter_template("utter_rephrase")>>, <<>>, "")
        ELSE LET attribute == get_attribute(tracker, g)
             IN  IF attribute = None
                 THEN Outcome(<<utter_template("utter_rephrase")>>, <<>>, "")
                 ELSE Outcome(CompareLoop(Val(entities), Val(attribute),
                                          g.table, <<>>),
                              <<>>, "")

CompareEntitiesCalls(tracker, g) ==
    LET resolved == get_slot(tracker, Some("entities")) # None
                        /\ get_entity_type(tracker, g) # None
    IN  {"entity-type-lookup"}
            \cup (IF resolved THEN {"attribute-lookup"} ELSE {})
            \cup (IF resolved /\ get_attribute(tracker, g) # None
                  THEN {"get_attribute_of"} ELSE {})

----------------------------------------------------------------------------
(* ActionResolveEntity *)

\* value in entities: TypeError when entities is None
In(value, entities) ==
    IF entities = None THEN Raise("TypeError")
    ELSE Return(\E i \in 1..Len(Val(entities)) : Val(entities)[i] = value)

ResolveEntityRun(tracker, g) ==
    LET entity_type == get_slot(tracker, Some("entity_type"))
        entities == get_slot(tracker, Some("entities"))
        value == get_slot(tracker, entity_type)
        known == IF value # None THEN In(Val(value), entities) ELSE Return(FALSE)
    IN  IF known.exc # "" THEN Outcome(<<>>, <<>>, known.exc)
        ELSE IF known.val THEN Outcome(<<>>, <<SlotSet(entity_type, value)>>, "")
        ELSE LET resolved == resolve_mention(tracker, g)
             IN  IF resolved.exc # "" THEN Outcome(<<>>, <<>>, resolved.exc)
                 ELSE IF resolved.val # None
                 THEN Outcome(<<>>, <<SlotSet(entity_type, resolved.val)>>, "")
                 ELSE Outcome(<<utter_message("Sorry, I didn't get that.")>>,
                              <<SlotSet(entity_type, None)>>, "")

ResolveEntityMention(tracker, g) ==
    LET value == get_slot(tracker, get_slot(tracker, Some("entity_type")))
        known == IF value # None
                 THEN In(Val(value), get_slot(tracker, Some("entities")))
                 ELSE Return(FALSE)
    IN  IF known.exc = "" /\ ~known.val
        THEN <<resolve_mention(tracker, g)>> ELSE <<>>

ResolveEntityCalls(tracker, g) ==
    LET entity_type == get_slot(tracker, Some("entity_type"))
        entities == get_slot(tracker, Some("entities"))
        value == get_slot(tracker, entity_type)
        known == IF value # None THEN In(Val(value), entities) ELSE Return(FALSE)
    IN  IF known.exc = "" /\ ~known.val THEN resolve_mention_calls(tracker) ELSE {}

----------------------------------------------------------------------------
(* The conversation: the NLU fills slots from what the user says, one of   *)
(* the four actions runs on the tracker, and the dialogue manager applies  *)
(* the events the action returned before anything else happens.            *)

\* the values the NLU may extract into a slot
Extracted ==
    [mention |-> {"first"},
     entity_type |-> {"bank", "transaction"},
     attribute |-> {"headquarters"},
     account |-> {"A1"},
     bank |-> {"N26"},
     category |-> {"food"}]

\* the graph database's answers before any is given
NoAnswers == [typ |-> None, mention |-> None, attr |-> None, got |-> <<>>, table |-> 0]

\* the answers to choose from for a call: S when the turn makes the call
Among(call, calls, S, unasked) == IF call \in calls THEN S ELSE {unasked}

\* the answers the turn asked for; an answer it did not ask for is <<>>
Asked(g, calls) ==
    [typ |-> IF "entity-type-lookup" \in calls THEN <<g.typ>> ELSE <<>>,
     mention |-> IF "mention-lookup" \in calls THEN <<g.mention>> ELSE <<>>,
     attr |-> IF "attribute-lookup" \in calls THEN <<g.attr>> ELSE <<>>,
     got |-> IF "get_entities" \in calls THEN <<g.got>> ELSE <<>>,
     table |-> IF "get_attribute_of" \in calls THEN <<g.table>> ELSE <<>>]

NoTurn ==
    [op |-> "none", g |-> Asked(NoAnswers, {}), mentioned |-> <<>>,
     out |-> Outcome(<<>>, <<>>, "")]

\* an action runs on the tracker as the last turn left it
Turn(op, g, calls, mentioned, out) ==
    /\ turn.op = "none"
    /\ turn' = [op |-> op, g |-> Asked(g, calls), mentioned |-> mentioned,
                out |-> out]
    /\ UNCHANGED <<slots, displayed, fmtIn, fmtOut>>

SetsEntities(events) ==
    \E i \in 1..Len(events) : events[i].name = Some("entities")

\* the turn ends: the events are applied unless the action raised
EndTurn ==
    /\ turn.op # "none"
    /\ slots' = IF turn.out.exc = "" THEN Apply(slots, turn.out.events) ELSE slots
    /\ displayed' = IF turn.out.exc = "" /\ SetsEntities(turn.out.events)
                    THEN Tail(turn.out.messages) ELSE displayed
    /\ turn' = NoTurn
    /\ UNCHANGED <<fmtIn, fmtOut>>

Init ==
    /\ slots = [s \in SlotNames |-> None]
    /\ turn = NoTurn
    /\ displayed = <<>>
    /\ fmtIn = <<>>
    /\ fmtOut = <<>>

UserSays ==
    \E s \in DOMAIN Extracted : \E v \in Extracted[s] :
        /\ turn.op = "none"
        /\ slots[s] # Some(v)
        /\ slots' = [slots EXCEPT ![s] = Some(v)]
        /\ turn' = NoTurn
        /\ UNCHANGED <<displayed, fmtIn, fmtOut>>

TypeAnswers == EntityTypeLookupResults(get_slot(slots, Some("entity_type")))

AttributeAnswers == AttributeLookupResults(get_slot(slots, Some("attribute")))

ActionQueryEntities ==
    \E typ \in TypeAnswers :
    \E got \in Among("get_entities",
                     QueryEntitiesCalls(slots, [NoAnswers EXCEPT !.typ = typ]),
                     IF typ # None
                     THEN GetEntitiesResults(Val(typ), FilterAttributes(slots, Val(typ)))
                     ELSE {}, <<>>) :
        LET g == [NoAnswers EXCEPT !.typ = typ, !.got = got]
        IN  Turn("action_query_entities", g,
                 QueryEntitiesCalls(slots, g), <<>>, QueryEntitiesRun(slots, g))

ActionQueryAttribute ==
    \E typ \in TypeAnswers :
    \E ml \in Among("mention-lookup",
                    QueryAttributeCalls(slots, [NoAnswers EXCEPT !.typ = typ]),
                    MentionLookupResults, None) :
    \E attr \in Among("attribute-lookup",
                      QueryAttributeCalls(
                          slots, [NoAnswers EXCEPT !.typ = typ, !.mention = ml]),
                      AttributeAnswers, None) :
    \E table \in Among("get_attribute_of",
                       QueryAttributeCalls(
                           slots, [NoAnswers EXCEPT !.typ = typ, !.mention = ml,
                                                    !.attr = attr]),
                       AttributeTables, 0) :
        LET g == [typ |-> typ, mention |-> ml, attr |-> attr,
                  got |-> <<>>, table |-> table]
        IN  Turn("action_query_attribute", g,
                 QueryAttributeCalls(slots, g), QueryAttributeMention(slots, g),
                 QueryAttributeRun(slots, g))

ActionCompareEntities ==
    \E typ \in TypeAnswers :
    \E attr \in Among("attribute-lookup",
                      CompareEntitiesCalls(slots, [NoAnswers EXCEPT !.typ = typ]),
                      AttributeAnswers, None) :
    \E table \in Among("get_attribute_of",
                       CompareEntitiesCalls(
                           slots, [NoAnswers EXCEPT !.typ = typ, !.attr = attr]),
                       AttributeTables, 0) :
        LET g == [NoAnswers EXCEPT !.typ = typ, !.attr = attr, !.table = table]
        IN  Turn("action_compare_entities", g,
                 CompareEntitiesCalls(slots, g), <<>>, CompareEntitiesRun(slots, g))

ActionResolveEntity ==
    \E ml \in Among("mention-lookup", ResolveEntityCalls(slots, NoAnswers),
                    MentionLookupResults, None) :
        LET g == [NoAnswers EXCEPT !.mention = ml]
        IN  Turn("action_resolve_entity", g,
                 ResolveEntityCalls(slots, g), ResolveEntityMention(slots, g),
                 ResolveEntityRun(slots, g))

Next ==
    \/ UserSays
    \/ ActionQueryEntities
    \/ ActionQueryAttribute
    \/ ActionCompareEntities
    \/ ActionResolveEntity
    \/ EndTurn

Spec == Init /\ [][Next]_vars

----------------------------------------------------------------------------
(* to_str on its own: the arguments are drawn from a record of each shape  *)
(* and from attribute paths whose segments do and do not hold the words    *)
(* to_str looks for.                                                       *)

account_number ==
    <<"a", "c", "c", "o", "u", "n", "t", "-", "n", "u", "m", "b", "e", "r">>
opening_date == <<"o", "p", "e", "n", "i", "n", "g", "-", "d", "a", "t", "e">>
balance_info_currency ==
    <<"b", "a", "l", "a", "n", "c", "e", "-", "i", "n", "f", "o", ".", "c",
      "u", "r", "r", "e", "n", "c", "y">>
update_by == <<"u", "p", "d", "a", "t", "e", ".", "b", "y">>
amount_to_date ==
    <<"a", "m", "o", "u", "n", "t", "-", "t", "o", "-", "d", "a", "t", "e">>
owner_name == <<"o", "w", "n", "e", "r", ".", "n", "a", "m", "e">>
owner_email == <<"o", "w", "n", "e", "r", ".", "e", "m", "a", "i", "l">>
account_of_creator_account_number ==
    <<"a", "c", "c", "o", "u", "n", "t", "-", "o", "f", "-", "c", "r", "e",
      "a", "t", "o", "r", ".", "a", "c", "c", "o", "u", "n", "t", "-", "n",
      "u", "m", "b", "e", "r">>

FmtPaths ==
    {account_number, balance, opening_date, balance_info_currency, update_by,
     amount_to_date, owner_name, owner_email,
     execution_date, amount, account_of_creator_account_number}

Account ==
    Map([balance |-> Num(1234),
         owner |-> Map([name |-> Str("Max")]),
         update |-> Map([by |-> Str("Max")])]
        @@ ("account-number" :> Str("A1"))
        @@ ("opening-date" :> Datetime(2023, 5, 1, 10, 15, 30))
        @@ ("balance-info" :> Map([currency |-> Str("EUR")]))
        @@ ("amount-to-date" :> Num(70)))

FmtEntities == {Account, Transaction("t1", "food", 1, 50, "A1")}

\* bound: the longest list of attribute paths handed to to_str
MaxKeys == 2

RECURSIVE PathLists(_)
PathLists(n) ==
    IF n = 0 THEN {<<>>}
    ELSE LET shorter == PathLists(n - 1)
         IN  shorter \cup {Append(l, k) : l \in shorter, k \in FmtPaths}

FmtKeys ==
    {TextKey(k) : k \in FmtPaths} \cup {ListKey(l) : l \in PathLists(MaxKeys)}

InitFmt ==
    /\ slots = [s \in SlotNames |-> None]
    /\ turn = NoTurn
    /\ displayed = <<>>
    /\ fmtIn \in {[entity |-> e, entity_keys |-> k] : e \in FmtEntities, k \in FmtKeys}
    /\ fmtOut = <<>>

Format ==
    /\ fmtOut = <<>>
    /\ fmtOut' = <<to_str(fmtIn.entity, fmtIn.entity_keys)>>
    /\ UNCHANGED <<slots, turn, displayed, fmtIn>>

NextFmt == Format

SpecFmt == InitFmt /\ [][NextFmt]_vars

----------------------------------------------------------------------------
(* What the properties below read off a state *)

Rephrase == utter_template("utter_rephrase")

\* the key string of a record of the graph, read off its key attribute
KeyOf(e) ==
    IF "identifier" \in DOMAIN e.f THEN e.f.identifier.s ELSE e.f.name.s

\* how each record of the graph reads on a line of a listing
Shown ==
    [N26 |-> "N26",
     t1 |-> "01.05.2023 (10:15:30), 50 €",
     t2 |-> "02.05.2023 (10:15:30), 700 €",
     t3 |-> "03.05.2023 (10:15:30), 9 €"]

Line(i, k) == ToString(i) \o ": " \o Shown[k]

\* the mention-lookup value i - 1 of the i-th line
IndexText == <<"0", "1", "2", "3", "4", "5", "6", "7", "8", "9">>
LookupOfLine(i) == Some(<<IndexText[i]>>)

\* the integer a mention-lookup value stands for, if it stands for one
IsIndex(found) ==
    found \in {Some(<<"-", "1">>), Some(<<"0">>), Some(<<"1">>), Some(<<"2">>)}
IndexOf(found) ==
    CASE found = Some(<<"-", "1">>) -> 0 - 1
      [] found = Some(<<"0">>) -> 0
      [] found = Some(<<"1">>) -> 1
      [] found = Some(<<"2">>) -> 2

Listing == turn.op = "action_query_entities"
Querying == turn.op = "action_query_attribute"
Comparing == turn.op = "action_compare_entities"
Resolving == turn.op = "action_resolve_entity"

\* the entity type the turn's lookup resolved, None if it resolved none
TypeFound == IF turn.g.typ = <<>> THEN None ELSE turn.g.typ[1]
AttributeFound == IF turn.g.attr = <<>> THEN None ELSE turn.g.attr[1]
Got == IF turn.g.got = <<>> THEN <<>> ELSE turn.g.got[1]

\* whether a record get_entities answered stays in the listing
Stays(e) ==
    \/ TypeFound # Some("transaction")
    \/ slots["account"] = None
    \/ e.f["account-of-creator"].f["account-number"].s = Val(slots["account"])

Remaining == {i \in 1..Len(Got) : Stays(Got[i])}

ExactlyOne(value) == value # None /\ Len(Val(value)) = 1

----------------------------------------------------------------------------
(* C1: after a listing that displayed n >= 1 entities, the `entities` slot *)
(* holds the key strings of the displayed entities in display order, and   *)
(* resolve_mention with the mention-lookup value i - 1 (1 <= i <= n)       *)
(* returns the key string of the entity displayed on line i.               *)
C1_MentionResolvesToDisplayedLine ==
    /\ slots["entities"] # None =>
          /\ Len(Val(slots["entities"])) = Len(displayed)
          /\ Len(displayed) >= 1
          /\ \A i \in 1..Len(displayed) :
                \E k \in DOMAIN Shown :
                    displayed[i] = utter_message(Line(i, k))
                        /\ Val(slots["entities"])[i] = k
    /\ \A i \in 1..Len(displayed) :
          (turn.mentioned # <<>> /\ turn.g.mention = <<LookupOfLine(i)>>) =>
              \E k \in DOMAIN Shown :
                  /\ displayed[i] = utter_message(Line(i, k))
                  /\ turn.mentioned[1] = Return(Some(k))

C1_Witness ==
    /\ Len(displayed) >= 2
    /\ turn.mentioned # <<>>
    /\ turn.g.mention = <<LookupOfLine(2)>>
    /\ displayed[2] = utter_message(Line(2, "t3"))
    /\ turn.mentioned[1] = Return(Some("t3"))

(* C2: with `mention` and `entities` both set, resolve_mention never       *)
(* raises and returns None when the mention-lookup result is absent, is no *)
(* integer, or is an integer below 0 or at least the length of `entities`. *)
C2_UnresolvableMentionIsAbsent ==
    (/\ turn.mentioned # <<>>
     /\ slots["mention"] # None
     /\ slots["entities"] # None
     /\ turn.g.mention # <<>>
     /\ LET found == turn.g.mention[1]
        IN  \/ found = None
            \/ ~IsIndex(found)
            \/ IndexOf(found) < 0
            \/ IndexOf(found) >= Len(Val(slots["entities"])))
        => turn.mentioned[1] = Return(None)

(* C3: when entity type, entity name and attribute all resolve,            *)
(* ActionQueryAttribute dispatches exactly one message: the value message  *)
(* if and only if get_attribute_of returned exactly one value, and the     *)
(* "no valid value" message otherwise.                                     *)
QueriedName ==
    IF TypeFound = None THEN None
    ELSE IF slots[Val(TypeFound)] # None THEN slots[Val(TypeFound)]
    ELSE IF turn.mentioned # <<>> /\ turn.mentioned[1].exc = ""
    THEN turn.mentioned[1].val
    ELSE None

QueryResolved ==
    Querying /\ TypeFound # None /\ QueriedName # None /\ AttributeFound # None

C3_OneAnswerPerQuery ==
    QueryResolved =>
        /\ turn.out.exc = ""
        /\ turn.g.table # <<>>
        /\ LET name == Val(QueriedName)
               value == get_attribute_of(turn.g.table[1], name)
           IN  turn.out.messages =
                   <<IF ExactlyOne(value)
                     THEN ValueMessage(name, Val(value)[1], Val(AttributeFound))
                     ELSE NoValueMessage(name, Val(AttributeFound))>>

C3_Witness ==
    /\ QueryResolved
    /\ turn.g.table # <<>>
    /\ get_attribute_of(turn.g.table[1], Val(QueriedName)) = Some(<<"v", "w">>)
    /\ Len(turn.out.messages) = 1

(* C4: when the entity-type lookup is absent, ActionQueryAttribute ends    *)
(* the turn with exactly one rephrase prompt and returns no events.        *)
C4_UnresolvedTypeEndsQuery ==
    (Querying /\ turn.g.typ = <<None>>) =>
        turn.out = Outcome(<<Rephrase>>, <<>>, "")

(* C5: ActionResolveEntity never raises and returns exactly one SlotSet of *)
(* the slot named after `entity_type`: the slot's value if it is set and   *)
(* among `entities`, else what resolve_mention returned if not None, else  *)
(* None together with the one "Sorry, I didn't get that." message.         *)
C5_ResolveEntityAlwaysAnswers ==
    Resolving =>
        LET entity_type == slots["entity_type"]
            value == get_slot(slots, entity_type)
            known == /\ value # None
                     /\ slots["entities"] # None
                     /\ \E i \in 1..Len(Val(slots["entities"])) :
                            Val(slots["entities"])[i] = Val(value)
            mentioned == IF turn.mentioned # <<>> /\ turn.mentioned[1].exc = ""
                         THEN turn.mentioned[1].val ELSE None
            expected == IF known THEN value ELSE mentioned
        IN  turn.out =
                Outcome(IF expected = None
                        THEN <<utter_message("Sorry, I didn't get that.")>>
                        ELSE <<>>,
                        <<SlotSet(entity_type, expected)>>, "")

(* C6: a listing whose entity type resolved and that is left with no       *)
(* entity (after the account filter) dispatches exactly the one "could not *)
(* find" message and returns no events, so no slot changes.                *)
C6_EmptyListingChangesNothing ==
    (Listing /\ TypeFound # None /\ Remaining = {}) =>
        /\ turn.out =
               Outcome(<<utter_template("I could not find any entities for '"
                                            \o Val(TypeFound) \o "'.")>>,
                       <<>>, "")
        /\ Apply(slots, turn.out.events) = slots

C6_Witness ==
    /\ Listing
    /\ TypeFound = Some("transaction")
    /\ Len(Got) = 1
    /\ Remaining = {}
    /\ slots["transaction"] # None
    /\ slots["entities"] # None
    /\ Len(turn.out.messages) = 1

(* C7: a listing sets the slot named after the entity type if and only if  *)
(* exactly one entity remains: then `entities` is the one-element list of  *)
(* that entity's key string and the type's slot is that key string; with   *)
(* two or more entities only `entity_type` and `entities` are set.         *)
C7_TypeSlotSetForSingleEntity ==
    (Listing /\ TypeFound # None) =>
        LET events == turn.out.events
            sets(name) == \E i \in 1..Len(events) : events[i].name = Some(name)
        IN  /\ turn.out.exc = ""
            /\ sets(Val(TypeFound)) <=> Cardinality(Remaining) = 1
            /\ Cardinality(Remaining) = 1 =>
                   LET k == KeyOf(Got[CHOOSE i \in Remaining : TRUE])
                   IN  events = <<SlotSet(Some("entity_type"), TypeFound),
                                  SlotSet(Some("entities"), Some(<<k>>)),
                                  SlotSet(TypeFound, Some(k))>>
            /\ Cardinality(Remaining) >= 2 =>
                   /\ Len(events) = 2
                   /\ events[1] = SlotSet(Some("entity_type"), TypeFound)
                   /\ events[2].name = Some("entities")
                   /\ Len(Val(events[2].value)) = Cardinality(Remaining)

C7_Witness ==
    /\ Listing
    /\ TypeFound = Some("transaction")
    /\ Len(Got) = 2
    /\ Cardinality(Remaining) = 1
    /\ Len(turn.out.events) = 3

(* C8: with `entities`, entity type and attribute all set,                 *)
(* ActionCompareEntities dispatches exactly one message for each entity    *)
(* whose attribute has exactly one value, in the order of `entities`,      *)
(* nothing for the other entities, and returns no events.                  *)
C8_CompareSkipsSilently ==
    (Comparing /\ slots["entities"] # None /\ TypeFound # None
         /\ AttributeFound # None) =>
        /\ turn.g.table # <<>>
        /\ LET answer(e) == get_attribute_of(turn.g.table[1], e)
               single(e) == ExactlyOne(answer(e))
               singles == SelectSeq(Val(slots["entities"]), single)
           IN  turn.out =
                   Outcome([i \in 1..Len(singles) |->
                               ValueMessage(singles[i], Val(answer(singles[i]))[1],
                                            Val(AttributeFound))],
                           <<>>, "")

C8_Witness ==
    /\ Comparing
    /\ slots["entities"] # None
    /\ Len(Val(slots["entities"])) = 2
    /\ turn.g.table # <<>>
    /\ ~ExactlyOne(get_attribute_of(turn.g.table[1], Val(slots["entities"])[1]))
    /\ ExactlyOne(get_attribute_of(turn.g.table[1], Val(slots["entities"])[2]))
    /\ Len(turn.out.messages) = 1

----------------------------------------------------------------------------
(* to_str's choice of rendering *)

Rendering(text) ==
    IF Contains(balance, text) \/ Contains(amount, text) THEN "currency"
    ELSE IF Contains(date, text) THEN "date"
    ELSE "plain"

FinalSegment(path) == Split(path, ".")[Len(Split(path, "."))]

Rendered(how, leaf) ==
    CASE how = "currency" -> str(leaf) \o " €"
      [] how = "date" -> strftime(leaf)
      [] how = "plain" -> str(leaf)

FmtPathsIn == IF fmtIn.entity_keys.kind = "str"
              THEN <<fmtIn.entity_keys.v>> ELSE fmtIn.entity_keys.v

Leaf(path) == Traverse(fmtIn.entity, Split(path, "."))

\* the rendering of each path by its final segment, and by the whole path
ByFinalSegment ==
    [i \in 1..Len(FmtPathsIn) |-> Rendering(FinalSegment(FmtPathsIn[i]))]
ByWholePath == [i \in 1..Len(FmtPathsIn) |-> Rendering(FmtPathsIn[i])]

\* every path leads to a value, and to a datetime where the choice is date
Renderable(choice) ==
    \A i \in 1..Len(FmtPathsIn) :
        /\ Leaf(FmtPathsIn[i]).exc = ""
        /\ choice[i] = "date" => Leaf(FmtPathsIn[i]).val.kind = "datetime"

Expected(choice) ==
    Return(JoinWith(", ", [i \in 1..Len(FmtPathsIn) |->
                              Rendered(choice[i], Leaf(FmtPathsIn[i]).val)]))

(* C9: to_str chooses the rendering of each attribute path from its final  *)
(* dotted segment only (balance/amount, then date, then plain); an earlier *)
(* segment holding "balance", "amount" or "date" changes nothing.          *)
C9_RenderingByFinalSegment ==
    (fmtOut # <<>> /\ Renderable(ByFinalSegment)) =>
        fmtOut[1] = Expected(ByFinalSegment)

(* C9 as amended: to_str chooses the rendering of each attribute path      *)
(* from the whole dotted path (balance/amount, then date, then plain), so  *)
(* an earlier segment holding one of the words changes the rendering too.  *)
C9_RenderingByWholePath ==
    /\ (fmtOut # <<>> /\ Renderable(ByWholePath)) =>
           fmtOut[1] = Expected(ByWholePath)
    /\ (fmtOut # <<>> /\ fmtIn.entity_keys.kind = "str"
            /\ Leaf(fmtIn.entity_keys.v).exc = ""
            /\ ByWholePath[1] = "date"
            /\ Leaf(fmtIn.entity_keys.v).val.kind # "datetime") =>
           fmtOut[1] = Raise("AttributeError")

C9_Witness ==
    /\ fmtOut # <<>>
    /\ fmtIn.entity_keys = ListKey(<<balance_info_currency, opening_date>>)
    /\ fmtOut[1] = Return("EUR €, 01.05.2023 (10:15:30)")

----------------------------------------------------------------------------
(* C10: for the entity type "transaction" with the `account` slot set, the *)
(* listing keeps exactly the answered records whose                        *)
(* account-of-creator.account-number is the `account` slot, in their       *)
(* order; with `account` unset, or for another entity type, it keeps all.  *)
C10_TransactionsOfTheAccount ==
    (Listing /\ TypeFound # None) =>
        LET events == turn.out.events
            kept == IF events = <<>> THEN <<>> ELSE Val(events[2].value)
            at(k) == CHOOSE i \in 1..Len(Got) : KeyOf(Got[i]) = k
            filtering == TypeFound = Some("transaction") /\ slots["account"] # None
            ofAccount(e) ==
                e.f["account-of-creator"].f["account-number"].s
                    = Val(slots["account"])
        IN  /\ turn.out.exc = ""
            /\ \A j \in 1..Len(kept) : \E i \in 1..Len(Got) : KeyOf(Got[i]) = kept[j]
            /\ \A j1, j2 \in 1..Len(kept) : j1 < j2 => at(kept[j1]) < at(kept[j2])
            /\ \A i \in 1..Len(Got) :
                   (\E j \in 1..Len(kept) : kept[j] = KeyOf(Got[i]))
                       <=> (filtering => ofAccount(Got[i]))
            /\ Len(turn.out.messages) = IF kept = <<>> THEN 1 ELSE Len(kept) + 1

C10_Witness ==
    /\ Listing
    /\ TypeFound = Some("transaction")
    /\ slots["account"] = Some("A1")
    /\ Len(Got) = 2
    /\ KeyOf(Got[1]) = "t2"
    /\ turn.out.events # <<>>
    /\ turn.out.events[2].value = Some(<<"t3">>)

====
